---- MODULE Spec2Model ----
(***************************************************************************)
(* Reddit Authority Agent (src/api/agent.py): the ingestion cycle, the     *)
(* Firestore collection it writes and the HTTP handlers around it.         *)
(*                                                                         *)
(* Spec         : requests served one at a time, each handler one action;  *)
(*                two submissions, plain in either revision, stickied,     *)
(*                removed or a link post.                                  *)
(* ReviewSpec   : the same, with PUT bodies that name any status, valid    *)
(*                or not, with or without a title.                         *)
(* ScenarioSpec : the same, with three submissions, one of them stickied.  *)
(* NestedSpec   : the same, with PUT bodies that name a field path below   *)
(*                status.                                                  *)
(* FaultSpec    : the same, with cycles in which a store or forum call     *)
(*                raises.                                                  *)
(* BacklogSpec  : the same, with six submissions, more than the limit of   *)
(*                the Approved query.                                      *)
(* ConcSpec     : ingestion cycles run concurrently, one store or forum    *)
(*                call per step; PUT and GET make a single store call and  *)
(*                stay one action each.                                    *)
(*                                                                         *)
(* Not modelled: exceptions raised by the store inside the GET and PUT      *)
(* handlers, other than NotFound from update on a missing document.        *)
(***************************************************************************)
EXTENDS Integers, Sequences, FiniteSets, TLC

(* ------------------------------------------------------------------ *)
(* Bounds of the model                                                 *)
(* ------------------------------------------------------------------ *)

\* The server clock takes the values 0..MaxClock.
MaxClock == 1

\* The longest listing the forum returns.
MaxListing == 3

(* ------------------------------------------------------------------ *)
(* Values                                                              *)
(* ------------------------------------------------------------------ *)

\* Python's None, and str(None).
None == "<None>"

\* class PostStatus(Enum)
PostStatus == {"New", "AnalysisPending", "Approved", "Rejected", "Deployed"}

STATUS_NEW == "New"

STATUS_APPROVED == "Approved"

\* limit(5) of the Approved query, and limit=25 of subreddit.new.
ApprovedLimit == 5

NewLimit == 25

\* Python truthiness of a string or None (a client handle, an environment
\* variable, removed_by_category).
Truthy(x) == x \notin {None, ""}

\* str(x) of a forum author: a Redditor prints as its name, None as "None".
Str(x) == IF x = None THEN "None" ELSE x

Min(a, b) == IF a <= b THEN a ELSE b

\* The fields of dict b laid over those of dict a ({**a, **b}).
Merge(a, b) ==
  [f \in DOMAIN a \cup DOMAIN b |-> IF f \in DOMAIN b THEN b[f] ELSE a[f]]

(* ------------------------------------------------------------------ *)
(* The forum (external): submissions and the listings it can return     *)
(* ------------------------------------------------------------------ *)

\* Submission ids grow with creation time; a "new" listing is newest first.
Rank(id) ==
  CASE id = "p1" -> 1 [] id = "p2" -> 2 [] id = "p3" -> 3
    [] id = "p4" -> 4 [] id = "p5" -> 5 [] OTHER -> 6

\* What the forum reports for a submission changes when its author edits it
\* or deletes the account: two revisions of the reported content.
TitleOf(rev) == IF rev = 1 THEN "title v1" ELSE "title v2"

SelftextOf(rev) == IF rev = 1 THEN "text v1" ELSE "text v2"

UrlOf(rev) == IF rev = 1 THEN "url v1" ELSE "url v2"

AuthorOf(rev) == IF rev = 1 THEN "alice" ELSE None

Submission(id, rev, stickied, removed, is_self) ==
  [id |-> id, title |-> TitleOf(rev), selftext |-> SelftextOf(rev),
   url |-> UrlOf(rev), author |-> AuthorOf(rev), created_utc |-> Rank(id),
   stickied |-> stickied, removed_by_category |-> removed, is_self |-> is_self]

\* Listings of at most n of the submissions subs, with distinct ids, newest first.
RECURSIVE ListingsOf(_, _)
ListingsOf(subs, n) ==
  IF n = 0 THEN {<< >>}
  ELSE {<< >>} \cup
       UNION {{<<s>> \o l :
                 l \in ListingsOf({u \in subs : Rank(u.id) < Rank(s.id)}, n - 1)} :
              s \in subs}

\* subreddit.new(limit=25): the first NewLimit submissions of the listing.
SubredditNew(listing) == SubSeq(listing, 1, Min(Len(listing), NewLimit))

(* ------------------------------------------------------------------ *)
(* The document store (Firestore), one collection                      *)
(* A store is a function from the ids that have a document to the      *)
(* document, itself a function from field names to values.             *)
(* ------------------------------------------------------------------ *)

\* doc_ref.get().exists
DocExists(st, id) == id \in DOMAIN st

\* firestore.SERVER_TIMESTAMP: the fields in stamped get the server's time.
Stamp(data, stamped, t) == Merge(data, [f \in stamped |-> t])

\* doc_ref.set(data): the document becomes data, whatever it was.
DocSet(st, id, data, stamped, t) ==
  [d \in DOMAIN st \cup {id} |->
     IF d = id THEN Stamp(data, stamped, t) ELSE st[d]]

\* A bug to tell from DocUpdate: the update replaces the document.
DocUpdateReplaces(st, id, data, stamped, t) ==
  [st EXCEPT ![id] = Stamp(data, stamped, t)]

\* update() reads each key of its dict as a field path: the key split at its
\* dots, the first part naming the document's field.
RECURSIVE FieldPath(_)
FieldPath(key) ==
  LET dots == {i \in 1..Len(key) : SubSeq(key, i, i) = "."}
  IN IF dots = {} THEN <<key>>
     ELSE LET i == CHOOSE i \in dots : \A j \in dots : i <= j
          IN <<SubSeq(key, 1, i - 1)>> \o FieldPath(SubSeq(key, i + 1, Len(key)))

\* The value a field gets from a write at the path below it: the value
\* itself, or for a nested path a map holding it (written as it prints). A
\* field that was not a map becomes one.
RECURSIVE Nest(_, _)
Nest(path, v) ==
  IF path = << >> THEN v ELSE "{" \o Head(path) \o ": " \o Nest(Tail(path), v) \o "}"

\* The document fields an update dict writes, and what each becomes.
FieldUpdates(data) ==
  LET writes == {<<FieldPath(k), data[k]>> : k \in DOMAIN data}
  IN [f \in {w[1][1] : w \in writes} |->
        LET w == CHOOSE w \in writes : w[1][1] = f
        IN Nest(Tail(w[1]), w[2])]

\* A bug to tell from DocUpdate: Deployed is final, an update of a Deployed
\* document leaves its status alone.
DocUpdateKeepsDeployed(st, id, data, stamped, t) ==
  [st EXCEPT ![id] =
     IF @["status"] = "Deployed"
     THEN Merge(Merge(@, FieldUpdates(Stamp(data, stamped, t))), [status |-> "Deployed"])
     ELSE Merge(@, FieldUpdates(Stamp(data, stamped, t)))]

\* doc_ref.update(data) on a document that exists: a merge of its fields.
\* (On one that does not exist Firestore raises NotFound.)
DocUpdate(st, id, data, stamped, t) ==
  [st EXCEPT ![id] = Merge(@, FieldUpdates(Stamp(data, stamped, t)))]

\* A bug to tell from WhereCount: the query has no limit.
WhereCountUnlimited(st, field, value, n) ==
  Cardinality({d \in DOMAIN st : field \in DOMAIN st[d] /\ st[d][field] = value})

\* collection.where(field, "==", value).limit(n).stream(), as the list's length.
WhereCount(st, field, value, n) ==
  Min(n, Cardinality({d \in DOMAIN st : field \in DOMAIN st[d] /\ st[d][field] = value}))

(* ------------------------------------------------------------------ *)
(* run_agent_cycle and fetch_or_initialize_post                        *)
(* ------------------------------------------------------------------ *)

\* A bug to tell from Skipped: removed_by_category is not looked at.
SkippedIgnoresRemoved(s) == s.stickied \/ ~s.is_self

\* The two `continue` tests of the loop.
Skipped(s) ==
  \/ (s.stickied \/ Truthy(s.removed_by_category))
  \/ ~s.is_self

\* post_data
PostData(s) ==
  [title |-> s.title, body |-> s.selftext, url |-> s.url,
   author |-> Str(s.author), created_utc |-> s.created_utc]

\* new_post_data, ingested_at still the sentinel.
NewPostData(data) ==
  [title |-> data.title, body |-> data.body, url |-> data.url,
   author |-> data.author, created_utc |-> data.created_utc,
   status |-> STATUS_NEW, analysis_result |-> None, deployment_id |-> None]

\* new_post_data as returned to the caller.
NewPostDoc(data) == Merge(NewPostData(data), [ingested_at |-> "SERVER_TIMESTAMP"])

\* A bug to tell from CountsAsNew: the status is not looked at, every
\* document the lookup returns is counted.
CountsEveryDocument(post_doc) == "status" \in DOMAIN post_doc

\* The test that increments new_posts_found.
CountsAsNew(post_doc) == post_doc["status"] = STATUS_NEW

\* A bug to tell from FetchOrInitializePost: the set is made whether or not
\* the document exists.
FetchOrInitializePostAlwaysSets(st, post_id, data, t) ==
  [store |-> DocSet(st, post_id, NewPostData(data), {"ingested_at"}, t),
   doc |-> NewPostDoc(data),
   calls |-> << <<"get", post_id>>, <<"set", post_id>> >>]

\* fetch_or_initialize_post, run without interruption:
\* the store afterwards, the dict returned and the store calls made.
FetchOrInitializePost(st, post_id, data, t) ==
  IF DocExists(st, post_id)
  THEN [store |-> st, doc |-> st[post_id], calls |-> << <<"get", post_id>> >>]
  ELSE [store |-> DocSet(st, post_id, NewPostData(data), {"ingested_at"}, t),
        doc |-> NewPostDoc(data),
        calls |-> << <<"get", post_id>>, <<"set", post_id>> >>]

\* The body of the for loop from submission i on, run without interruption.
RECURSIVE CycleLoop(_, _, _, _, _, _)
CycleLoop(st, subs, i, found, calls, t) ==
  IF i > Len(subs) THEN [store |-> st, new_posts_found |-> found, calls |-> calls]
  ELSE IF Skipped(subs[i]) THEN CycleLoop(st, subs, i + 1, found, calls, t)
  ELSE LET r == FetchOrInitializePost(st, subs[i].id, PostData(subs[i]), t)
       IN CycleLoop(r.store, subs, i + 1,
                    IF CountsAsNew(r.doc) THEN found + 1 ELSE found,
                    calls \o r.calls, t)

ConnectionFailed == [status |-> "error", message |-> "Connection failed"]

Success(found, approved, t) ==
  [status |-> "success", new_posts_found |-> found,
   approved_posts_count |-> approved, timestamp |-> t]

\* A bug to tell from RunAgentCycle: the handle test is `and`, so the cycle
\* stops only when both handles are missing.
RunAgentCycleNeedsOneHandle(st, db, reddit, listing, t) ==
  IF ~Truthy(reddit) /\ ~Truthy(db)
  THEN [store |-> st, result |-> ConnectionFailed, calls |-> << >>]
  ELSE LET approved == WhereCount(st, "status", STATUS_APPROVED, ApprovedLimit)
           subs == SubredditNew(listing)
           r == CycleLoop(st, subs, 1, 0, << <<"where", "status">>, <<"new", "">> >>, t)
       IN [store |-> r.store,
           result |-> Success(r.new_posts_found, approved, t),
           calls |-> r.calls]

\* run_agent_cycle(db, reddit), run without interruption; db and reddit are
\* a client handle, or None for a failed initialisation.
RunAgentCycle(st, db, reddit, listing, t) ==
  IF ~Truthy(reddit) \/ ~Truthy(db)
  THEN [store |-> st, result |-> ConnectionFailed, calls |-> << >>]
  ELSE LET approved == WhereCount(st, "status", STATUS_APPROVED, ApprovedLimit)
           subs == SubredditNew(listing)
           r == CycleLoop(st, subs, 1, 0, << <<"where", "status">>, <<"new", "">> >>, t)
       IN [store |-> r.store,
           result |-> Success(r.new_posts_found, approved, t),
           calls |-> r.calls]

\* The dict returned by `except Exception as e`, message str(e).
CycleError == [status |-> "error", message |-> "raised"]

\* The for loop from submission i on when the k-th store or forum call of
\* the cycle raises: the store as the calls before it left it, and the calls
\* made, the one that raised logged as <<"raised", its name>>. The call that
\* raises writes nothing. raised is FALSE when the loop ends before call k.
RECURSIVE CycleLoopRaising(_, _, _, _, _, _)
CycleLoopRaising(st, subs, i, calls, t, k) ==
  IF i > Len(subs) THEN [store |-> st, calls |-> calls, raised |-> FALSE]
  ELSE IF Skipped(subs[i]) THEN CycleLoopRaising(st, subs, i + 1, calls, t, k)
  ELSE IF Len(calls) + 1 = k
  THEN [store |-> st, calls |-> Append(calls, <<"raised", "get">>), raised |-> TRUE]
  ELSE IF DocExists(st, subs[i].id)
  THEN CycleLoopRaising(st, subs, i + 1, Append(calls, <<"get", subs[i].id>>), t, k)
  ELSE IF Len(calls) + 2 = k
  THEN [store |-> st,
        calls |-> calls \o << <<"get", subs[i].id>>, <<"raised", "set">> >>,
        raised |-> TRUE]
  ELSE CycleLoopRaising(
         DocSet(st, subs[i].id, NewPostData(PostData(subs[i])), {"ingested_at"}, t),
         subs, i + 1,
         calls \o << <<"get", subs[i].id>>, <<"set", subs[i].id>> >>, t, k)

\* A bug to tell from RunAgentCycleRaising: the except clause undoes what
\* the cycle wrote.
RunAgentCycleRaisingRollsBack(st, db, reddit, listing, t, k) ==
  IF ~Truthy(reddit) \/ ~Truthy(db)
  THEN [store |-> st, result |-> ConnectionFailed, calls |-> << >>, raised |-> FALSE]
  ELSE LET r == CycleLoopRaising(st, SubredditNew(listing), 1,
                                 << <<"where", "status">>, <<"new", "">> >>, t, k)
       IN [store |-> st, result |-> CycleError, calls |-> r.calls, raised |-> r.raised]

\* run_agent_cycle(db, reddit) when its k-th store or forum call raises: the
\* Approved query (k = 1), the listing fetch (k = 2) or a get or set of the
\* loop. The exception is caught by `except Exception` and an error dict is
\* returned; nothing is undone.
RunAgentCycleRaising(st, db, reddit, listing, t, k) ==
  IF ~Truthy(reddit) \/ ~Truthy(db)
  THEN [store |-> st, result |-> ConnectionFailed, calls |-> << >>, raised |-> FALSE]
  ELSE IF k = 1
  THEN [store |-> st, result |-> CycleError,
        calls |-> << <<"raised", "where">> >>, raised |-> TRUE]
  ELSE IF k = 2
  THEN [store |-> st, result |-> CycleError,
        calls |-> << <<"where", "status">>, <<"raised", "new">> >>, raised |-> TRUE]
  ELSE LET r == CycleLoopRaising(st, SubredditNew(listing), 1,
                                 << <<"where", "status">>, <<"new", "">> >>, t, k)
       IN IF r.raised
          THEN [store |-> r.store, result |-> CycleError, calls |-> r.calls,
                raised |-> TRUE]
          ELSE Merge(RunAgentCycle(st, db, reddit, listing, t), [raised |-> FALSE])

(* ------------------------------------------------------------------ *)
(* State                                                               *)
(* ------------------------------------------------------------------ *)

VARIABLES
  store,    \* the collection artifacts/{APP_ID}/public/data/reddit_posts
  now,      \* the store server's clock
  API_KEY,  \* os.getenv('API_KEY'): None when unset
  last,     \* the request served last: what it carried, read and returned
  cyc       \* per worker, the local state of its run_agent_cycle (ConcSpec)

vars == <<store, now, API_KEY, last, cyc>>

Workers == {"w1", "w2"}

EmptyDict == [f \in {} |-> None]

\* A client handle.
Client == "client"

Idle ==
  [pc |-> "idle", subs |-> << >>, i |-> 0, found |-> 0, approved |-> 0,
   post_data |-> EmptyDict, calls |-> << >>]

NoRequest ==
  [seq |-> 0, endpoint |-> "none", api_key |-> None, post_id |-> None,
   data |-> EmptyDict, db |-> None, reddit |-> None, listing |-> << >>,
   code |-> 0, body |-> EmptyDict, inits |-> {}, calls |-> << >>]

\* The request served next is told from the last one by seq.
NextSeq == 1 - last.seq

(* ------------------------------------------------------------------ *)
(* The HTTP handlers, each run without interruption                    *)
(* A handler gives the store afterwards, the response (code, body),    *)
(* the client initialisers it called and the store and forum calls it  *)
(* made.                                                               *)
(* ------------------------------------------------------------------ *)

\* A bug to tell from Authorized: `not expected_key` is left out, so an
\* absent header matches an unset API_KEY.
AuthorizedWithoutExpectedKeyTest(api_key) == ~(api_key # API_KEY)

\* A bug to tell from Authorized: `not expected_key` is `expected_key is
\* None`, so an empty header matches an empty API_KEY.
AuthorizedUnlessUnset(api_key) == ~(API_KEY = None \/ api_key # API_KEY)

\* require_api_key: the test that lets the request through.
Authorized(api_key) == ~(~Truthy(API_KEY) \/ api_key # API_KEY)

Unauthorized(st) ==
  [store |-> st, code |-> 401, body |-> [error |-> "Unauthorized"],
   inits |-> {}, calls |-> << >>]

DatabaseConnectionFailed(st) ==
  [store |-> st, code |-> 500, body |-> [error |-> "Database connection failed"],
   inits |-> {"firestore"}, calls |-> << >>]

\* health_check
HealthCheckHandler(st, t) ==
  [store |-> st, code |-> 200,
   body |-> [status |-> "ok", service |-> "Reddit Authority Agent", timestamp |-> t],
   inits |-> {}, calls |-> << >>]

\* run_agent
RunAgentHandler(st, api_key, db, reddit, listing, t) ==
  IF ~Authorized(api_key) THEN Unauthorized(st)
  ELSE LET r == RunAgentCycle(st, db, reddit, listing, t)
       IN [store |-> r.store,
           code |-> IF r.result["status"] = "error" THEN 500 ELSE 200,
           body |-> r.result,
           inits |-> {"firestore", "reddit"}, calls |-> r.calls]

\* run_agent, for a cycle one of whose calls raises.
RunAgentRaisingHandler(st, api_key, db, reddit, listing, t, k) ==
  IF ~Authorized(api_key) THEN Unauthorized(st)
  ELSE LET r == RunAgentCycleRaising(st, db, reddit, listing, t, k)
       IN [store |-> r.store,
           code |-> IF r.result["status"] = "error" THEN 500 ELSE 200,
           body |-> r.result,
           inits |-> {"firestore", "reddit"}, calls |-> r.calls]

\* get_posts
GetPostsHandler(st, api_key, db) ==
  IF ~Authorized(api_key) THEN Unauthorized(st)
  ELSE IF ~Truthy(db) THEN DatabaseConnectionFailed(st)
  ELSE [store |-> st, code |-> 200,
        body |-> [posts |-> {Merge(st[d], [id |-> d]) : d \in DOMAIN st},
                  count |-> Cardinality(DOMAIN st)],
        inits |-> {"firestore"}, calls |-> << <<"stream", "">> >>]

\* get_post
GetPostHandler(st, api_key, db, post_id) ==
  IF ~Authorized(api_key) THEN Unauthorized(st)
  ELSE IF ~Truthy(db) THEN DatabaseConnectionFailed(st)
  ELSE IF ~DocExists(st, post_id)
  THEN [store |-> st, code |-> 404, body |-> [error |-> "Post not found"],
        inits |-> {"firestore"}, calls |-> << <<"get", post_id>> >>]
  ELSE [store |-> st, code |-> 200, body |-> Merge(st[post_id], [id |-> post_id]),
        inits |-> {"firestore"}, calls |-> << <<"get", post_id>> >>]

\* A bug to tell from ValidStatus: the status is tested only when it is the
\* one field of the body.
ValidStatusOfLoneField(data) ==
  ~("status" \in DOMAIN data /\ DOMAIN data = {"status"}
      /\ data["status"] \notin PostStatus)

\* The status test of update_post: TRUE when the request is let through.
ValidStatus(data) == ~("status" \in DOMAIN data /\ data["status"] \notin PostStatus)

\* update_post
UpdatePostHandler(st, api_key, db, post_id, data, t) ==
  IF ~Authorized(api_key) THEN Unauthorized(st)
  ELSE IF ~Truthy(db) THEN DatabaseConnectionFailed(st)
  ELSE IF ~ValidStatus(data)
  THEN [store |-> st, code |-> 400, body |-> [error |-> "Invalid status"],
        inits |-> {"firestore"}, calls |-> << >>]
  ELSE IF ~DocExists(st, post_id)
  \* document(post_id).update raises NotFound, caught by `except Exception`
  THEN [store |-> st, code |-> 500, body |-> [error |-> "NotFound"],
        inits |-> {"firestore"}, calls |-> << <<"update", post_id>> >>]
  ELSE [store |-> DocUpdate(st, post_id, data, {"updated_at"}, t), code |-> 200,
        body |-> [message |-> "Post updated successfully", id |-> post_id],
        inits |-> {"firestore"}, calls |-> << <<"update", post_id>> >>]

(* ------------------------------------------------------------------ *)
(* Actions: one request served, or the clock advancing                 *)
(* ------------------------------------------------------------------ *)

\* What initialize_firestore and initialize_reddit can return.
Handles == {Client, None}

Served(endpoint, api_key, post_id, data, db, reddit, listing, r) ==
  /\ store' = r.store
  /\ last' = [seq |-> NextSeq, endpoint |-> endpoint, api_key |-> api_key,
              post_id |-> post_id,
              data |-> IF "firestore" \in r.inits /\ Truthy(db) THEN data ELSE EmptyDict,
              db |-> IF "firestore" \in r.inits THEN db ELSE None,
              reddit |-> IF "reddit" \in r.inits THEN reddit ELSE None,
              listing |-> IF <<"new", "">> \in {r.calls[i] : i \in DOMAIN r.calls}
                          THEN listing ELSE << >>,
              code |-> r.code, body |-> r.body, inits |-> r.inits, calls |-> r.calls]
  /\ UNCHANGED <<now, API_KEY, cyc>>

Tick ==
  /\ now < MaxClock
  /\ now' = now + 1
  /\ UNCHANGED <<store, API_KEY, last, cyc>>

HealthCheck ==
  Served("health_check", None, None, EmptyDict, None, None, << >>,
            HealthCheckHandler(store, now))

\* The inputs a handler never reads are not drawn: a request turned away by
\* require_api_key initialises no client, one without a store handle parses
\* no body, and a cycle without both handles fetches no listing.
HandlesFor(api_key) == IF Authorized(api_key) THEN Handles ELSE {None}

ListingsFor(api_key, db, reddit, listings) ==
  IF Authorized(api_key) /\ Truthy(db) /\ Truthy(reddit) THEN listings ELSE {<< >>}

BodiesFor(api_key, db, bodies) ==
  IF Authorized(api_key) /\ Truthy(db) THEN bodies ELSE {EmptyDict}

RunAgent(keys, listings) ==
  \E api_key \in keys :
     \E db \in HandlesFor(api_key), reddit \in HandlesFor(api_key) :
     \E listing \in ListingsFor(api_key, db, reddit, listings) :
       Served("run_agent", api_key, None, EmptyDict, db, reddit, listing,
              RunAgentHandler(store, api_key, db, reddit, listing, now))

\* A /run-agent whose cycle has its k-th store or forum call raise; the
\* listing is the one the forum would return (or began to return).
RunAgentRaising(keys, listings, ks) ==
  \E api_key \in keys, listing \in listings, k \in ks :
     /\ Authorized(api_key)
     /\ RunAgentCycleRaising(store, Client, Client, listing, now, k).raised
     /\ Served("run_agent", api_key, None, EmptyDict, Client, Client,
               IF k <= 2 THEN << >> ELSE listing,
               RunAgentRaisingHandler(store, api_key, Client, Client, listing, now, k))

GetPosts(keys) ==
  \E api_key \in keys :
     \E db \in HandlesFor(api_key) :
       Served("get_posts", api_key, None, EmptyDict, db, None, << >>,
              GetPostsHandler(store, api_key, db))

GetPost(keys, ids) ==
  \E api_key \in keys, post_id \in ids :
     \E db \in HandlesFor(api_key) :
       Served("get_post", api_key, post_id, EmptyDict, db, None, << >>,
              GetPostHandler(store, api_key, db, post_id))

UpdatePost(keys, ids, bodies) ==
  \E api_key \in keys, post_id \in ids :
     \E db \in HandlesFor(api_key) :
     \E data \in BodiesFor(api_key, db, bodies) :
       Served("update_post", api_key, post_id, data, db, None, << >>,
              UpdatePostHandler(store, api_key, db, post_id, data, now))

InitWith(api_keys) ==
  /\ store = EmptyDict
  /\ now = 0
  /\ API_KEY \in api_keys
  /\ last = NoRequest
  /\ cyc = [w \in Workers |-> Idle]

(* ------------------------------------------------------------------ *)
(* Spec: requests served one at a time, two submissions on the forum,  *)
(* every combination of their flags and revisions                      *)
(* ------------------------------------------------------------------ *)

IDs == {"p1", "p2"}

\* A self post in either revision, or a first revision that is stickied,
\* removed by a moderator, or a link post.
Submissions ==
  {Submission(id, rev, FALSE, None, TRUE) : id \in IDs, rev \in {1, 2}}
  \cup {Submission(id, 1, TRUE, None, TRUE) : id \in IDs}
  \cup {Submission(id, 1, FALSE, "moderator", TRUE) : id \in IDs}
  \cup {Submission(id, 1, FALSE, None, FALSE) : id \in IDs}

Listings == ListingsOf(Submissions, MaxListing)

Keys == {None, "", "secret", "wrong"}

ApiKeys == {None, "", "secret"}

Bodies ==
  { [status |-> "Approved"], [status |-> "Bogus"],
    [status |-> "Bogus", title |-> "edited"] }

Init == InitWith(ApiKeys)

Next ==
  \/ Tick
  \/ HealthCheck
  \/ RunAgent(Keys, Listings)
  \/ GetPosts(Keys)
  \/ GetPost(Keys, IDs)
  \/ UpdatePost(Keys, IDs, Bodies)

Spec == Init /\ [][Next]_vars

(* ------------------------------------------------------------------ *)
(* ReviewSpec: requests served one at a time, plain self posts on the  *)
(* forum, and a reviewer whose PUT bodies name any status, valid or    *)
(* not, with or without a captured field beside it                     *)
(* ------------------------------------------------------------------ *)

ReviewSubmissions == {Submission(id, 1, FALSE, None, TRUE) : id \in IDs}

ReviewListings == ListingsOf(ReviewSubmissions, MaxListing)

ReviewKeys == {None, "secret"}

ReviewBodies ==
  {[status |-> s] : s \in PostStatus \cup {"Bogus"}}
  \cup {[status |-> s, title |-> "edited"] : s \in PostStatus \cup {"Bogus"}}
  \cup {EmptyDict, [title |-> "edited"], [status |-> "Rejected", updated_at |-> 99]}

ReviewInit == InitWith({"secret"})

ReviewNext ==
  \/ Tick
  \/ HealthCheck
  \/ RunAgent(ReviewKeys, ReviewListings)
  \/ GetPosts(ReviewKeys)
  \/ GetPost(ReviewKeys, IDs)
  \/ UpdatePost(ReviewKeys, IDs, ReviewBodies)

ReviewSpec == ReviewInit /\ [][ReviewNext]_vars


(* ------------------------------------------------------------------ *)
(* ScenarioSpec: requests served one at a time; the forum has a plain  *)
(* self post p1, a stickied p2 and a plain self post p3, and lists any *)
(* of them; the reviewer approves                                      *)
(* ------------------------------------------------------------------ *)

ScenarioIDs == {"p1", "p2", "p3"}

ScenarioSubmissions ==
  {Submission("p1", 1, FALSE, None, TRUE), Submission("p2", 1, TRUE, None, TRUE),
   Submission("p3", 1, FALSE, None, TRUE)}

ScenarioListings == ListingsOf(ScenarioSubmissions, MaxListing)

ScenarioKeys == {"secret"}

ScenarioBodies == {[status |-> "Approved"]}

ScenarioInit == InitWith({"secret"})

ScenarioNext ==
  \/ Tick
  \/ RunAgent(ScenarioKeys, ScenarioListings)
  \/ GetPosts(ScenarioKeys)
  \/ UpdatePost(ScenarioKeys, ScenarioIDs, ScenarioBodies)

ScenarioSpec == ScenarioInit /\ [][ScenarioNext]_vars

(* ------------------------------------------------------------------ *)
(* NestedSpec: requests served one at a time, plain self posts on the  *)
(* forum, and a reviewer whose PUT bodies name a status, valid or not, *)
(* or a field path below status                                        *)
(* ------------------------------------------------------------------ *)

NestedKeys == {"secret"}

NestedBodies ==
  { [status |-> "Deployed"], [status |-> "Bogus"],
    [k \in {"status.note"} |-> "seen"] }

NestedInit == InitWith({"secret"})

NestedNext ==
  \/ Tick
  \/ RunAgent(NestedKeys, ReviewListings)
  \/ GetPost(NestedKeys, IDs)
  \/ UpdatePost(NestedKeys, IDs, NestedBodies)

NestedSpec == NestedInit /\ [][NestedNext]_vars

(* ------------------------------------------------------------------ *)
(* FaultSpec: requests served one at a time, plain self posts on the   *)
(* forum; any store or forum call of a cycle may raise                 *)
(* ------------------------------------------------------------------ *)

\* The most calls a cycle makes: the query, the fetch, a get and a set for
\* each submission.
MaxCalls == 2 + 2 * MaxListing

FaultKeys == {"secret"}

FaultBodies == {[status |-> "Approved"]}

FaultInit == InitWith({"secret"})

FaultNext ==
  \/ Tick
  \/ RunAgent(FaultKeys, ReviewListings)
  \/ RunAgentRaising(FaultKeys, ReviewListings, 1..MaxCalls)
  \/ GetPosts(FaultKeys)
  \/ UpdatePost(FaultKeys, IDs, FaultBodies)

FaultSpec == FaultInit /\ [][FaultNext]_vars

(* ------------------------------------------------------------------ *)
(* BacklogSpec: requests served one at a time at one server time; six  *)
(* plain self posts on the forum, more than the Approved query's       *)
(* limit; the reviewer approves                                        *)
(* ------------------------------------------------------------------ *)

BacklogIDs == {"p1", "p2", "p3", "p4", "p5", "p6"}

BacklogSubmissions == {Submission(id, 1, FALSE, None, TRUE) : id \in BacklogIDs}

BacklogListings == ListingsOf(BacklogSubmissions, MaxListing)

BacklogKeys == {"secret"}

BacklogBodies == {[status |-> "Approved"]}

BacklogInit == InitWith({"secret"})

BacklogNext ==
  \/ RunAgent(BacklogKeys, BacklogListings)
  \/ UpdatePost(BacklogKeys, BacklogIDs, BacklogBodies)

BacklogSpec == BacklogInit /\ [][BacklogNext]_vars

(* ------------------------------------------------------------------ *)
(* run_agent stepwise: one store or forum call per step, so that       *)
(* cycles of several workers and the other handlers interleave         *)
(* ------------------------------------------------------------------ *)

\* The submission the loop of worker w is at.
Current(w) == cyc[w].subs[cyc[w].i]

\* The response of a cycle that did not stop at require_api_key or at the
\* handle test is recorded when the cycle returns.
Returned(w, result, calls) ==
  last' = [seq |-> NextSeq, endpoint |-> "run_agent", api_key |-> API_KEY,
           post_id |-> None, data |-> EmptyDict, db |-> Client, reddit |-> Client,
           listing |-> cyc[w].subs,
           code |-> IF result["status"] = "error" THEN 500 ELSE 200,
           body |-> result, inits |-> {"firestore", "reddit"}, calls |-> calls]

\* run_agent up to the try block: require_api_key, the two initialisers and
\* the handle test. A request that stops here is answered at once.
StartCycle(w, keys) ==
  /\ cyc[w].pc = "idle"
  /\ \E api_key \in keys :
     \E db \in HandlesFor(api_key), reddit \in HandlesFor(api_key) :
       IF Authorized(api_key) /\ Truthy(db) /\ Truthy(reddit)
       THEN /\ cyc' = [cyc EXCEPT ![w] = [Idle EXCEPT !.pc = "query"]]
            /\ UNCHANGED <<store, now, API_KEY, last>>
       ELSE Served("run_agent", api_key, None, EmptyDict, db, reddit, << >>,
                   RunAgentHandler(store, api_key, db, reddit, << >>, now))

\* approved_posts = collection_ref.where(...).limit(5).stream()
QueryApproved(w) ==
  /\ cyc[w].pc = "query"
  /\ cyc' = [cyc EXCEPT ![w].pc = "fetch",
                        ![w].approved = WhereCount(store, "status", STATUS_APPROVED, ApprovedLimit),
                        ![w].calls = Append(@, <<"where", "status">>)]
  /\ UNCHANGED <<store, now, API_KEY, last>>

\* subreddit.new(limit=25): the listing is fetched when the loop starts.
FetchNew(w, listings) ==
  /\ cyc[w].pc = "fetch"
  /\ \E listing \in listings :
       cyc' = [cyc EXCEPT ![w].pc = "loop", ![w].subs = SubredditNew(listing),
                          ![w].i = 1, ![w].calls = Append(@, <<"new", "">>)]
  /\ UNCHANGED <<store, now, API_KEY, last>>

\* The loop passes over a submission.
SkipSubmission(w) ==
  /\ cyc[w].pc = "loop" /\ cyc[w].i <= Len(cyc[w].subs)
  /\ Skipped(Current(w))
  /\ cyc' = [cyc EXCEPT ![w].i = @ + 1]
  /\ UNCHANGED <<store, now, API_KEY, last>>

\* doc = doc_ref.get() in fetch_or_initialize_post: an existing document is
\* returned and counted if its status is New; otherwise the set is next.
GetDocument(w) ==
  /\ cyc[w].pc = "loop" /\ cyc[w].i <= Len(cyc[w].subs)
  /\ ~Skipped(Current(w))
  /\ LET id == Current(w).id
         got == Append(cyc[w].calls, <<"get", id>>)
     IN IF DocExists(store, id)
        THEN cyc' = [cyc EXCEPT ![w].i = @ + 1, ![w].calls = got,
                                ![w].found = IF CountsAsNew(store[id]) THEN @ + 1 ELSE @]
        ELSE cyc' = [cyc EXCEPT ![w].pc = "set", ![w].calls = got,
                                ![w].post_data = PostData(Current(w))]
  /\ UNCHANGED <<store, now, API_KEY, last>>

\* doc_ref.set(new_post_data), the return of new_post_data and the count.
SetDocument(w) ==
  /\ cyc[w].pc = "set"
  /\ store' = DocSet(store, Current(w).id, NewPostData(cyc[w].post_data),
                     {"ingested_at"}, now)
  /\ cyc' = [cyc EXCEPT ![w].pc = "loop", ![w].i = @ + 1,
                        ![w].post_data = EmptyDict,
                        ![w].calls = Append(@, <<"set", Current(w).id>>),
                        ![w].found = IF CountsAsNew(NewPostDoc(cyc[w].post_data))
                                     THEN @ + 1 ELSE @]
  /\ UNCHANGED <<now, API_KEY, last>>

\* The loop is over: the success result is returned.
ReturnCycle(w) ==
  /\ cyc[w].pc = "loop" /\ cyc[w].i > Len(cyc[w].subs)
  /\ Returned(w, Success(cyc[w].found, cyc[w].approved, now), cyc[w].calls)
  /\ cyc' = [cyc EXCEPT ![w] = Idle]
  /\ UNCHANGED <<store, now, API_KEY>>

(* ------------------------------------------------------------------ *)
(* ConcSpec: two workers run cycles over one submission while a        *)
(* reviewer approves it                                                *)
(* ------------------------------------------------------------------ *)

ConcIDs == {"p1"}

ConcSubmissions ==
  {Submission("p1", 1, FALSE, None, TRUE), Submission("p1", 2, FALSE, None, TRUE),
   Submission("p1", 1, TRUE, None, TRUE)}

ConcListings == ListingsOf(ConcSubmissions, MaxListing)

ConcKeys == {"secret"}

ConcBodies == {[status |-> "Approved"]}

ConcInit == InitWith({"secret"})

ConcNext ==
  \/ Tick
  \/ GetPost(ConcKeys, ConcIDs)
  \/ UpdatePost(ConcKeys, ConcIDs, ConcBodies)
  \/ \E w \in Workers :
       \/ StartCycle(w, ConcKeys)
       \/ QueryApproved(w)
       \/ FetchNew(w, ConcListings)
       \/ SkipSubmission(w)
       \/ GetDocument(w)
       \/ SetDocument(w)
       \/ ReturnCycle(w)

ConcSpec == ConcInit /\ [][ConcNext]_vars


(* ------------------------------------------------------------------ *)
(* Vocabulary of the properties                                        *)
(* ------------------------------------------------------------------ *)

\* This step serves a request (last' describes it, last the one before).
Request == last'.seq # last.seq

CallSet(r) == {r.calls[i] : i \in DOMAIN r.calls}

\* How many times the request r made the store call c.
CallCount(r, c) == Cardinality({i \in DOMAIN r.calls : r.calls[i] = c})

\* The ids for which the request r created a document.
CreatedBy(r) == {c[2] : c \in {x \in CallSet(r) : x[1] = "set"}}

\* r is an ingestion cycle that ran to its end.
CycleDone(r) == r.endpoint = "run_agent" /\ r.code = 200

\* The submissions the cycle r fetched.
Fetched(r) == {r.listing[i] : i \in DOMAIN r.listing}

\* A submission the cycle is to pass over: pinned, removed or a link post.
Flagged(s) == s.stickied \/ s.removed_by_category # None \/ ~s.is_self

Protected == {"run_agent", "get_posts", "get_post", "update_post"}

(* ------------------------------------------------------------------ *)
(* C1..C10                                                             *)
(* ------------------------------------------------------------------ *)

\* C1 (as claimed): when a cycle that ran to its end is followed, with no
\* other request in between, by a cycle that fetches the same listing, the
\* second cycle returns new_posts_found = 0.
C1_SecondRunFindsNothing ==
  [][ (Request /\ CycleDone(last) /\ CycleDone(last') /\ last'.listing = last.listing)
      => last'.body["new_posts_found"] = 0 ]_vars

\* C2: when two successive cycles both fetch an id (and neither passes it
\* over), the id has a document after the first, the second makes no set call
\* for it, the first made at most one, and the document is the same after the
\* second cycle as before it, whatever the second fetch reports for the id.
C2_DedupAcrossCycles ==
  [][ (Request /\ CycleDone(last) /\ CycleDone(last'))
      => \A s \in Fetched(last), u \in Fetched(last') :
           (s.id = u.id /\ ~Flagged(s) /\ ~Flagged(u))
           => /\ s.id \in DOMAIN store
              /\ s.id \in DOMAIN store' /\ store'[s.id] = store[s.id]
              /\ <<"set", s.id>> \notin CallSet(last')
              /\ CallCount(last, <<"set", s.id>>) <= 1 ]_vars

\* Reached: the cycle served last fetched p1 in its second revision and the
\* document of p1 still carries the first revision, ingested by an earlier one.
C2_Witness ==
  /\ CycleDone(last)
  /\ \E u \in Fetched(last) : u.id = "p1" /\ ~Flagged(u) /\ u.title = TitleOf(2)
  /\ <<"get", "p1">> \in CallSet(last)
  /\ "p1" \in DOMAIN store /\ store["p1"]["title"] = TitleOf(1)
  /\ store["p1"]["author"] = "alice"

\* The scenario of C3: three submissions fetched, one stickied, one whose
\* document existed before the cycle, one for which the cycle created it.
ThreeFetched(r) ==
  /\ Len(r.listing) = 3
  /\ Cardinality({s \in Fetched(r) : s.stickied}) = 1
  /\ Cardinality({s \in Fetched(r) : ~Flagged(s) /\ s.id \notin CreatedBy(r)}) = 1
  /\ Cardinality({s \in Fetched(r) : ~Flagged(s) /\ s.id \in CreatedBy(r)}) = 1

\* C3 (as claimed): the new_posts_found a cycle returns is the number of
\* documents the cycle created; it is 1 in the three-submission scenario.
C3_CountsCreations ==
  CycleDone(last)
  => /\ last.body["new_posts_found"] = Cardinality(CreatedBy(last))
     /\ ThreeFetched(last) => last.body["new_posts_found"] = 1

\* A worker's set call lands in this step, for the id given.
SetLands(w) == cyc[w].pc = "set" /\ cyc'[w].pc # "set"

\* C4 (as claimed): under interleaved cycles and PUTs, a set call of an
\* ingestion cycle never lands on an id that already has a document: the
\* document, its status and its updated_at are what they were.
C4_NeverOverwritten ==
  [][ \A w \in Workers :
        (SetLands(w) /\ Current(w).id \in DOMAIN store)
        => store'[Current(w).id] = store[Current(w).id] ]_vars

\* C5: a fetched submission that is a link post, stickied or removed gets no
\* store call in the cycle, its id's document (or absence) is as before the
\* cycle, and new_posts_found is at most the number of the other submissions.
C5_Filtering ==
  [][ (Request /\ CycleDone(last'))
      => /\ \A s \in Fetched(last') :
              Flagged(s)
              => /\ <<"get", s.id>> \notin CallSet(last')
                 /\ <<"set", s.id>> \notin CallSet(last')
                 /\ (s.id \in DOMAIN store') = (s.id \in DOMAIN store)
                 /\ s.id \in DOMAIN store => store'[s.id] = store[s.id]
         /\ last'.body["new_posts_found"]
              <= Cardinality({s \in Fetched(last') : ~Flagged(s)}) ]_vars

\* Reached: a cycle fetched a removed p2 and a plain p1, ingested p1 and left
\* p2 without a document.
C5_Witness ==
  /\ CycleDone(last)
  /\ \E s \in Fetched(last) : s.id = "p2" /\ s.removed_by_category = "moderator"
  /\ <<"set", "p1">> \in CallSet(last)
  /\ "p2" \notin DOMAIN store

\* C7: a request to a protected endpoint whose X-API-Key header is absent or
\* differs from the configured key gets 401, initialises no client, makes no
\* store or forum call and leaves the store as it was.
C7_AuthFirst ==
  [][ (Request /\ last'.endpoint \in Protected
         /\ (last'.api_key = None \/ last'.api_key # API_KEY))
      => /\ last'.code = 401
         /\ last'.inits = {} /\ last'.calls = << >>
         /\ store' = store ]_vars

\* Reached: with documents in the store and a key configured, a PUT carrying
\* another key was turned away.
C7_Witness ==
  /\ last.endpoint = "update_post" /\ last.api_key = "wrong" /\ API_KEY = "secret"
  /\ last.code = 401 /\ DOMAIN store # {}

\* C8: a let-through /run-agent whose store handle or forum handle is None
\* answers 500 with an error result, makes no store or forum call and leaves
\* the store as it was.
C8_MissingHandle ==
  [][ (Request /\ last'.endpoint = "run_agent" /\ "firestore" \in last'.inits
         /\ (last'.db = None \/ last'.reddit = None))
      => /\ last'.code = 500 /\ last'.body["status"] = "error"
         /\ last'.calls = << >>
         /\ store' = store ]_vars

\* Reached: a cycle with a store handle and no forum handle answered 500.
C8_Witness ==
  /\ last.endpoint = "run_agent" /\ last.inits = {"firestore", "reddit"}
  /\ last.db = Client /\ last.reddit = None
  /\ last.code = 500 /\ last.body = ConnectionFailed

\* The PUT served in this step was let through and had a store handle, so
\* its body was parsed.
ParsedPut == Request /\ last'.endpoint = "update_post" /\ last'.db = Client

\* C6: a PUT whose body names a status outside the five of PostStatus answers
\* 400, makes no store call and leaves the whole store as it was, whatever
\* else the body names.
C6_StatusValidation ==
  [][ (ParsedPut /\ "status" \in DOMAIN last'.data
         /\ last'.data["status"]
              \notin {"New", "AnalysisPending", "Approved", "Rejected", "Deployed"})
      => /\ last'.code = 400
         /\ last'.calls = << >>
         /\ store' = store ]_vars

\* Reached: a PUT naming status Bogus and a title for a document that exists
\* was answered 400, the document keeping its title.
C6_Witness ==
  /\ last.endpoint = "update_post" /\ last.code = 400
  /\ last.data = [status |-> "Bogus", title |-> "edited"]
  /\ last.post_id \in DOMAIN store
  /\ store[last.post_id]["title"] = TitleOf(1)

\* C9 (as claimed): a GET or a PUT (with a valid body) for an id that has no
\* document answers 404.
C9_NotFoundIs404 ==
  ( /\ last.endpoint \in {"get_post", "update_post"}
    /\ last.db = Client /\ ValidStatus(last.data)
    /\ last.post_id \notin DOMAIN store )
  => last.code = 404

\* C10: a PUT answered 200 leaves the addressed document with the fields it
\* had and those the body names, each named field (but updated_at) at the
\* body's value, updated_at at the server's time, every other field and every
\* other document as before; a PUT for an id without a document is not
\* answered 200 and leaves the store as it was.
C10_PartialMerge ==
  [][ ParsedPut
      => LET id == last'.post_id
             data == last'.data
         IN /\ (last'.code = 200 /\ id \in DOMAIN store)
               => /\ DOMAIN store' = DOMAIN store
                  /\ \A d \in DOMAIN store \ {id} : store'[d] = store[d]
                  /\ DOMAIN store'[id]
                       = DOMAIN store[id] \cup DOMAIN data \cup {"updated_at"}
                  /\ store'[id]["updated_at"] = now
                  /\ \A f \in DOMAIN data \ {"updated_at"} : store'[id][f] = data[f]
                  /\ \A f \in DOMAIN store[id] \ (DOMAIN data \cup {"updated_at"}) :
                       store'[id][f] = store[id][f]
            /\ id \notin DOMAIN store => (last'.code # 200 /\ store' = store) ]_vars

\* Reached: a PUT naming only a title was answered 200 on a document that an
\* earlier PUT had approved: the status and the ingestion fields are kept.
C10_Witness ==
  /\ last.endpoint = "update_post" /\ last.code = 200
  /\ last.data = [title |-> "edited"]
  /\ store[last.post_id]["title"] = "edited"
  /\ store[last.post_id]["status"] = "Approved"
  /\ store[last.post_id]["body"] = SelftextOf(1)
  /\ store[last.post_id]["updated_at"] > store[last.post_id]["ingested_at"]

(* ------------------------------------------------------------------ *)
(* C11..C18                                                            *)
(* ------------------------------------------------------------------ *)

\* The fields captured at ingestion.
Captured == {"title", "body", "url", "author", "ingested_at"}

\* C11 (as claimed): once an id has a document, no step (cycle or PUT,
\* whatever the PUT's body names) changes the document's title, body, url,
\* author or ingested_at.
C11_CapturedImmutable ==
  [][ \A d \in DOMAIN store :
        /\ d \in DOMAIN store'
        /\ \A f \in Captured : store'[d][f] = store[d][f] ]_vars

\* C12 (as claimed): in every reachable state every document has a status,
\* and it is one of New, AnalysisPending, Approved, Rejected, Deployed.
C12_StatusInEnum ==
  \A d \in DOMAIN store :
     /\ "status" \in DOMAIN store[d]
     /\ store[d]["status"] \in {"New", "AnalysisPending", "Approved", "Rejected", "Deployed"}

\* C13 (as claimed): a step changes the status held under an id only if it
\* creates the id's document, with status New, or serves a PUT for that id;
\* so no step of an ingestion cycle changes the status of a document that is
\* already there.
C13_OnlyCreationIntoNew ==
  [][ \A d \in DOMAIN store' :
        (d \notin DOMAIN store \/ store'[d]["status"] # store[d]["status"])
        => \/ d \notin DOMAIN store /\ store'[d]["status"] = "New"
           \/ Request /\ last'.endpoint = "update_post" /\ last'.post_id = d ]_vars

\* A call of the request r raised.
Raised(r) == \E c \in CallSet(r) : c[1] = "raised"

\* The document a cycle writes for the submission s at server time t.
Written(s, t) ==
  [title |-> s.title, body |-> s.selftext, url |-> s.url,
   author |-> IF s.author = None THEN "None" ELSE s.author,
   created_utc |-> s.created_utc, status |-> "New",
   analysis_result |-> None, deployment_id |-> None, ingested_at |-> t]

\* C14: a /run-agent one of whose store or forum calls raises (the Approved
\* query, the fetch, or a get or set at some submission) answers 500 with an
\* error result; the documents that were there are as before, and those the
\* cycle created before the call raised are in the store as written.
C14_ErrorWithoutRollback ==
  [][ (Request /\ last'.endpoint = "run_agent" /\ Raised(last'))
      => /\ last'.code = 500
         /\ last'.body["status"] = "error" /\ "message" \in DOMAIN last'.body
         /\ \A d \in DOMAIN store : d \in DOMAIN store' /\ store'[d] = store[d]
         /\ DOMAIN store' = DOMAIN store \cup CreatedBy(last')
         /\ \A d \in CreatedBy(last') :
              /\ d \notin DOMAIN store
              /\ \E s \in Fetched(last') : s.id = d /\ store'[d] = Written(s, now) ]_vars

\* Reached: a cycle created the document of p2, its get for p1 raised, it
\* answered 500 and the document of p2 is in the store.
C14_Witness ==
  /\ last.endpoint = "run_agent" /\ last.code = 500
  /\ last.calls = << <<"where", "status">>, <<"new", "">>, <<"get", "p2">>,
                     <<"set", "p2">>, <<"raised", "get">> >>
  /\ "p2" \in DOMAIN store /\ store["p2"]["status"] = "New"
  /\ "p1" \notin DOMAIN store

\* C15: a PUT for an id that has a document, with a body naming one of the
\* five statuses, answers 200 and leaves the document with that status,
\* whatever the status was before (Deployed included) and whatever else the
\* body names.
C15_UnguardedTransitions ==
  [][ (ParsedPut /\ last'.post_id \in DOMAIN store /\ "status" \in DOMAIN last'.data
         /\ last'.data["status"] \in PostStatus)
      => /\ last'.code = 200
         /\ store'[last'.post_id]["status"] = last'.data["status"] ]_vars

\* Reached: a PUT naming status New was answered 200 for a document that an
\* earlier PUT had edited, and the other document is Deployed.
C15_Witness ==
  /\ last.endpoint = "update_post" /\ last.code = 200
  /\ last.data = [status |-> "New"]
  /\ store[last.post_id]["status"] = "New"
  /\ store[last.post_id]["title"] = "edited"
  /\ \E d \in DOMAIN store : store[d]["status"] = "Deployed"

\* The ids whose document has status Approved in the store st.
ApprovedIn(st) == {d \in DOMAIN st : st[d]["status"] = "Approved"}

C18_FailClosed ==
  [][ (Request /\ last'.endpoint \in Protected /\ API_KEY \in {None, ""})
      => /\ last'.code = 401 /\ last'.body = [error |-> "Unauthorized"]
         /\ last'.inits = {} /\ last'.calls = << >>
         /\ store' = store ]_vars

\* Reached: with API_KEY empty, a PUT carrying an empty X-API-Key was
\* answered 401.
C18_Witness ==
  /\ API_KEY = "" /\ last.endpoint = "update_post" /\ last.api_key = ""
  /\ last.code = 401 /\ last.inits = {}

====
